---- MODULE Spec2Model ----
(***************************************************************************)
(* RuntimeCompiler (modules/@angular/compiler/src/runtime_compiler.ts):    *)
(* the three caches, the host-template and component-template compilation  *)
(* chains, the recursive stylesheet resolution and the promises that link  *)
(* them.  Every synchronous call chain of the source is one action; every  *)
(* promise callback (.then) and every collaborator future that settles is  *)
(* one action.                                                             *)
(***************************************************************************)
EXTENDS Naturals, Sequences, FiniteSets, TLC

VARIABLES
  scen,                  \* the application compiled (the name of a scenario)
  styleCache,            \* _styleCache: cache key (string) -> xhr promise id
  hostCacheKeys,         \* _hostCacheKeys: component type -> host cache key
  compiledTemplateCache, \* _compiledTemplateCache: cache key -> template id
  templates,             \* every CompiledTemplate ever constructed
  hosts,                 \* every CompileHostTemplate ever constructed
  jobs,                  \* every _resolveStylesCompileResult invocation
  fetches,               \* every promise returned by xhr.get
  requests,              \* every resolveComponent call and what it returned
  calls,                 \* invocations of the collaborators
  nextKey,               \* number of host cache keys allocated (new Object())
  clears,                \* number of clearCache calls
  failures               \* number of collaborator failures so far

vars == <<scen, styleCache, hostCacheKeys, compiledTemplateCache, templates,
          hosts, jobs, fetches, requests, calls, nextKey, clears, failures>>

----------------------------------------------------------------------------
(* Bounds of the exploration *)

\* calls of resolveComponent and clearCache plus collaborator failures in a run
MaxEvents == 3

----------------------------------------------------------------------------
(* The inputs: component types, a directive that is not a component, a      *)
(* string argument, and the graphs of view / host-factory / stylesheet      *)
(* dependencies the collaborators report.                                   *)

Types == {"A", "B", "C", "D"}
StringArg == "some-selector"
NoType == "-"

\* a compiler without the isString check
NeverString(component) == FALSE

isString(component) == component \notin Types

ViewDep(c) == [kind |-> "view", comp |-> c]
HostDep(c) == [kind |-> "host", comp |-> c]
Import(u, s) == [moduleUrl |-> u, isShimmed |-> s]

NoDeps == [c \in Types |-> <<>>]
NoSheets == [u \in {"u", "u.shim", "v"} |-> <<>>]

Scenario(name, deps, imports, sheets, roots) ==
  [name |-> name, deps |-> deps, imports |-> imports, sheets |-> sheets,
   roots |-> roots]

Scenarios ==
  { Scenario("mutual",
             [NoDeps EXCEPT !["A"] = <<ViewDep("B")>>, !["B"] = <<ViewDep("A")>>],
             NoDeps, NoSheets, {"A", "B"}),
    Scenario("self",
             [NoDeps EXCEPT !["A"] = <<ViewDep("A"), ViewDep("B")>>],
             NoDeps, NoSheets, {"A", "D", StringArg}),
    Scenario("siblings",
             [NoDeps EXCEPT !["A"] = <<ViewDep("B"), ViewDep("C")>>,
                            !["B"] = <<ViewDep("C")>>, !["C"] = <<ViewDep("B")>>],
             NoDeps, NoSheets, {"A"}),
    Scenario("hostdep",
             [NoDeps EXCEPT !["A"] = <<HostDep("B")>>],
             [NoDeps EXCEPT !["A"] = <<Import("v", FALSE)>>,
                            !["B"] = <<Import("v", FALSE)>>],
             NoSheets, {"A", "B"}),
    Scenario("styles",
             NoDeps,
             [NoDeps EXCEPT !["A"] = <<Import("u", TRUE), Import("u.shim", FALSE)>>],
             [NoSheets EXCEPT !["u"] = <<Import("v", FALSE)>>],
             {"A"}) }

\* CompileDirectiveMetadata.isComponent, as the metadata resolver reports it
isComponent(type) == type # "D"

\* the scenario of this run
Scen == CHOOSE s \in Scenarios : s.name = scen
ScenarioNames == {s.name : s \in Scenarios}

\* createHostComponentMeta(compMeta.type, compMeta.selector): a template whose
\* sole content is the component, with no styles
HostMeta(type) == [type |-> type, isHost |-> TRUE]
CompMeta(type) == [type |-> type, isHost |-> FALSE]

\* compileResult.dependencies of viewCompiler.compileComponent(compMeta, ...)
DepsOf(meta) ==
  IF meta.isHost THEN <<ViewDep(meta.type)>> ELSE Scen.deps[meta.type]

\* result.dependencies of styleCompiler.compileComponent(compMeta)
ImportsOf(meta) ==
  IF meta.isHost THEN <<>> ELSE Scen.imports[meta.type]

\* result.dependencies of styleCompiler.compileStylesheet(moduleUrl, ...)
SheetImportsOf(moduleUrl) == Scen.sheets[moduleUrl]

\* metadataResolver.getViewDirectivesMetadata(type): the directives the
\* component's view declares, one per dependency of its template
NumViewDirectives(type) == Len(Scen.deps[type])

----------------------------------------------------------------------------
(* Maps and keys *)

Has(m, k) == k \in DOMAIN m
Put(m, k, v) == [x \in DOMAIN m \cup {k} |-> IF x = k THEN v ELSE m[x]]
EmptyMap == <<>>

Range(s) == {s[i] : i \in 1..Len(s)}

\* hostCacheKey = new Object(): the n-th object allocated
HostKey(n) == [kind |-> "host", n |-> n, type |-> NoType]
\* childCacheKey = dep.comp.type.runtime
TypeKey(c) == [kind |-> "type", n |-> 0, type |-> c]

Bump(f, k) == [f EXCEPT ![k] = @ + 1]

\* The mutable state of the compiler as one value, threaded through the
\* synchronous call chains
State ==
  [styleCache |-> styleCache, hostCacheKeys |-> hostCacheKeys,
   compiledTemplateCache |-> compiledTemplateCache, templates |-> templates,
   hosts |-> hosts, jobs |-> jobs, fetches |-> fetches, requests |-> requests,
   calls |-> calls, nextKey |-> nextKey, clears |-> clears,
   failures |-> failures, thrown |-> "none", styleThrowsFor |-> NoType]

\* The state at the start of a handler in which styleCompiler.compileComponent
\* throws for the metadata of `type` (NoType: it does not throw)
StateWith(type) == [State EXCEPT !.styleThrowsFor = type]

Commit(S) ==
  /\ styleCache' = S.styleCache
  /\ hostCacheKeys' = S.hostCacheKeys
  /\ compiledTemplateCache' = S.compiledTemplateCache
  /\ templates' = S.templates
  /\ hosts' = S.hosts
  /\ jobs' = S.jobs
  /\ fetches' = S.fetches
  /\ requests' = S.requests
  /\ calls' = S.calls
  /\ nextKey' = S.nextKey
  /\ clears' = S.clears
  /\ failures' = S.failures
  /\ scen' = scen

Throw(S, error) == [S EXCEPT !.thrown = error]

----------------------------------------------------------------------------
(* _loadStylesheetDep and the synchronous part of                          *)
(* _resolveStylesCompileResult.  An operator that stands for a call returns *)
(* [st, id]: the state after the call and the object returned.              *)

StyleCacheKey(dep) == dep.moduleUrl \o (IF dep.isShimmed THEN ".shim" ELSE "")

\* cssTextPromise = this._xhr.get(dep.moduleUrl); this._styleCache.set(...)
FetchStylesheet(S, dep) ==
  [S EXCEPT !.fetches = Append(@, [moduleUrl |-> dep.moduleUrl,
                                   isShimmed |-> dep.isShimmed,
                                   epoch |-> S.clears,
                                   status |-> "pending"]),
            !.calls.xhr = Bump(@, dep.moduleUrl),
            !.styleCache = Put(@, StyleCacheKey(dep), Len(S.fetches) + 1)]

\* -> [st, id]: the promise of the stylesheet's text
LoadStylesheetDep(S, dep) ==
  IF Has(S.styleCache, StyleCacheKey(dep))
  THEN [st |-> S, id |-> S.styleCache[StyleCacheKey(dep)]]
  ELSE [st |-> FetchStylesheet(S, dep), id |-> Len(S.fetches) + 1]

\* the result r of a call joins the results collected so far
Collect(ids, r) == [st |-> r.st, ids |-> Append(ids, r.id)]

\* result.dependencies.map((dep) => this._loadStylesheetDep(dep));
\* acc: [st, ids]
RECURSIVE LoadAll(_, _)
LoadAll(acc, deps) ==
  IF deps = <<>> THEN acc
  ELSE LoadAll(Collect(acc.ids, LoadStylesheetDep(acc.st, Head(deps))),
               Tail(deps))

\* the invocation, waiting for the stylesheet texts r.ids
AddJob(r, deps) ==
  [st |-> [r.st EXCEPT
             !.jobs = Append(@, [deps |-> deps, fetch |-> r.ids,
                                 epoch |-> r.st.clears,
                                 nested |-> <<>>, patched |-> 0,
                                 realized |-> FALSE,
                                 phase |-> "fetching"])],
   id |-> Len(r.st.jobs) + 1]

\* -> [st, id]
ResolveStylesCompileResult(S, deps) ==
  AddJob(LoadAll([st |-> S, ids |-> <<>>], deps), deps)

\* -> [st, id]
CompileComponentStyles(S, compMeta) ==
  IF compMeta.type = S.styleThrowsFor
  THEN [st |-> Throw([S EXCEPT !.calls.styleCompiler = @ + 1,
                               !.failures = @ + 1], "StyleCompileError"),
        id |-> 0]
  ELSE ResolveStylesCompileResult([S EXCEPT !.calls.styleCompiler = @ + 1],
                                  ImportsOf(compMeta))

----------------------------------------------------------------------------
(* _loadAndCompileComponent, synchronous part (lines 81-86, 100-103)        *)

NewTemplate(S, cacheKey, compMeta, numViewDirectives, path, styles) ==
  [key |-> cacheKey, meta |-> compMeta, path |-> path, epoch |-> S.clears,
   styles |-> styles, normLeft |-> numViewDirectives, normFailed |-> FALSE,
   phase |-> "loading", parses |-> 0, codegens |-> 0, patched |-> 0,
   links |-> <<>>, realizations |-> 0, seen |-> 0,
   inits |-> 0, awaits |-> {}, done |-> "pending"]

\* lines 85-86 and 100-101, r being what _compileComponentStyles returned:
\* the directives are handed to the normalizer, the CompiledTemplate is
\* constructed and put in the cache
AddTemplate(r, cacheKey, compMeta, numViewDirectives, path) ==
  IF r.st.thrown # "none" THEN [st |-> r.st, id |-> 0]
  ELSE [st |-> [r.st EXCEPT
                  !.calls.normalize = @ + numViewDirectives,
                  !.templates = Append(@, NewTemplate(r.st, cacheKey,
                                  compMeta, numViewDirectives, path, r.id)),
                  !.compiledTemplateCache =
                      Put(@, cacheKey, Len(r.st.templates) + 1)],
        id |-> Len(r.st.templates) + 1]

\* lines 83-101, the cache holding no entry for the key -> [st, id]
CreateTemplate(S, cacheKey, compMeta, numViewDirectives, path) ==
  AddTemplate(CompileComponentStyles(S, compMeta), cacheKey, compMeta,
              numViewDirectives, path)

\* a compiler that does not look into the cache
AlwaysCreateTemplate(S, cacheKey, compMeta, numViewDirectives, path) ==
  CreateTemplate(S, cacheKey, compMeta, numViewDirectives, path)

\* -> [st, id]
LoadAndCompileComponent(S, cacheKey, compMeta, numViewDirectives, path) ==
  IF Has(S.compiledTemplateCache, cacheKey)
  THEN [st |-> S, id |-> S.compiledTemplateCache[cacheKey]]
  ELSE CreateTemplate(S, cacheKey, compMeta, numViewDirectives, path)

----------------------------------------------------------------------------
(* _loadAndCompileHostComponent and CompileHostTemplate                    *)

\* this._metadataResolver.getDirectiveMetadata(componentType)
GetDirectiveMetadata(S, componentType) ==
  [S EXCEPT !.calls.metadata = Bump(@, componentType)]

\* hostCacheKey = new Object(); this._hostCacheKeys.set(..., hostCacheKey)
AllocateHostKey(S, componentType) ==
  [S EXCEPT !.nextKey = @ + 1,
            !.hostCacheKeys = Put(@, componentType, HostKey(S.nextKey + 1))]

\* assertComponent(compMeta)
AssertComponent(S, type) ==
  IF isComponent(type) THEN S ELSE Throw(S, "NotAComponent")

\* lines 69-72, unless the assertion threw
LoadHost(S, componentType) ==
  IF S.thrown # "none" THEN S
  ELSE LoadAndCompileComponent(S, S.hostCacheKeys[componentType],
                               HostMeta(componentType), 1, <<>>).st

\* lines 66-72: the body of if (isBlank(hostCacheKey))
CompileHost(S, componentType) ==
  LoadHost(AssertComponent(AllocateHostKey(S, componentType), componentType),
           componentType)

\* a compiler that allocates a host cache key on every call
HostKeyPerCall(S, componentType) == CompileHost(S, componentType)

\* lines 64-73
LoadHostOnce(S, componentType) ==
  IF Has(S.hostCacheKeys, componentType) THEN S
  ELSE CompileHost(S, componentType)

\* lines 74-75: compTemplate = this._compiledTemplateCache.get(hostCacheKey);
\* new CompileHostTemplate(compTemplate, compMeta), whose constructor reads
\* _template.proxyViewFactory and throws on an absent template -> [st, id]
NewCompileHostTemplate(S, type) ==
  IF S.thrown # "none" THEN [st |-> S, id |-> 0]
  ELSE IF ~Has(S.compiledTemplateCache, S.hostCacheKeys[type])
  THEN [st |-> Throw(S, "TypeError"), id |-> 0]
  ELSE [st |-> [S EXCEPT !.hosts = Append(@,
                  [type |-> type,
                   template |-> S.compiledTemplateCache[S.hostCacheKeys[type]],
                   done |-> "pending"])],
        id |-> Len(S.hosts) + 1]

\* a compiler that asks for the metadata only when it has no host cache key
MetadataOnMiss(S, componentType) ==
  IF Has(S.hostCacheKeys, componentType)
  THEN NewCompileHostTemplate(S, componentType)
  ELSE NewCompileHostTemplate(
         CompileHost(GetDirectiveMetadata(S, componentType), componentType),
         componentType)

\* -> [st, id]
LoadAndCompileHostComponent(S, componentType) ==
  NewCompileHostTemplate(
    LoadHostOnce(GetDirectiveMetadata(S, componentType), componentType),
    componentType)

----------------------------------------------------------------------------
(* resolveComponent and clearCache                                         *)

Request(component, outcome, error, host, S) ==
  [component |-> component, outcome |-> outcome, error |-> error,
   host |-> host, epoch |-> S.clears, seq |-> Len(S.requests) + 1]

\* what the call hands to its caller, r being what
\* _loadAndCompileHostComponent returned: its exception, or its `done`
Returned(r, component) ==
  [r.st EXCEPT !.requests = Append(@,
     IF r.st.thrown # "none"
     THEN Request(component, "threw", r.st.thrown, 0, r.st)
     ELSE Request(component, "future", "none", r.id, r.st))]

\* -> the state after the call, with the call's result recorded
ResolveComponentOp(S, component) ==
  IF isString(component)
  THEN [S EXCEPT !.requests = Append(@,
          Request(component, "rejected", "CannotResolve", 0, S))]
  ELSE Returned(LoadAndCompileHostComponent(S, component), component)

\* a clearCache that forgets _hostCacheKeys.clear()
ClearCacheKeepingHostKeys(S) ==
  [S EXCEPT !.styleCache = EmptyMap,
            !.compiledTemplateCache = EmptyMap,
            !.clears = @ + 1]

ClearCacheOp(S) ==
  [S EXCEPT !.styleCache = EmptyMap,
            !.compiledTemplateCache = EmptyMap,
            !.hostCacheKeys = EmptyMap,
            !.clears = @ + 1]

----------------------------------------------------------------------------
(* The two callbacks of _resolveStylesCompileResult (lines 162-173 and     *)
(* 174-186)                                                                *)

\* cssTexts[i]: a stylesheet's text is identified by the URL it was fetched from
CssText(S, j, i) == S.fetches[S.jobs[j].fetch[i]].moduleUrl

\* lines 167-170: compileStylesheet(dep.moduleUrl, cssText, dep.isShimmed),
\* whose result's dependencies are those the text declares, and the nested
\* _resolveStylesCompileResult -> [st, id]
CompileStylesheet(S, j, i) ==
  ResolveStylesCompileResult([S EXCEPT !.calls.compileStylesheet = @ + 1],
                             SheetImportsOf(CssText(S, j, i)))

\* the loop of lines 164-171; acc: [st, ids]
RECURSIVE CompileNested(_, _, _)
CompileNested(acc, j, i) ==
  IF i > Len(acc.st.jobs[j].deps) THEN acc
  ELSE CompileNested(Collect(acc.ids, CompileStylesheet(acc.st, j, i)), j, i + 1)

\* return PromiseWrapper.all(nestedCompileResultPromises)
Nesting(r, j) ==
  [r.st EXCEPT !.jobs[j].nested = r.ids, !.jobs[j].phase = "nesting"]

\* first callback; fail: compileStylesheet throws on the first dependency
StylesFetchedOp(S, j, fail) ==
  IF fail
  THEN [S EXCEPT !.calls.compileStylesheet = @ + 1, !.failures = @ + 1,
                 !.jobs[j].phase = "rejected"]
  ELSE Nesting(CompileNested([st |-> S, ids |-> <<>>], j, 1), j)

\* second callback: every placeholder is patched, then the program is realized
\* (interpretStatements / jitStatements); fail: the realization throws
StylesRealizeOp(S, j, fail) ==
  [S EXCEPT !.jobs[j].patched = Len(S.jobs[j].deps),
            !.jobs[j].realized = TRUE,
            !.jobs[j].phase = IF fail THEN "rejected" ELSE "resolved",
            !.failures = IF fail THEN @ + 1 ELSE @]

----------------------------------------------------------------------------
(* _loadAndCompileComponent, asynchronous part (lines 83-99), and           *)
(* _compileComponent (lines 106-151)                                        *)

Await(kind, id) == [kind |-> kind, id |-> id]

\* a compiler without the recursion check
NeverRecursive(path, childCacheKey) == FALSE

\* childCompilingComponentsPath.indexOf(childCacheKey) > -1
ChildIsRecursive(path, childCacheKey) == childCacheKey \in Range(path)

\* lines 127-132 and 134-137, r being the childComp returned: the placeholder
\* is assigned, and childComp.done is pushed to childPromises if `awaited`;
\* acc: [st, awaits (childPromises), patched (placeholders assigned), links
\* (what each placeholder was assigned), realizations, seen]
Link(acc, r, kind, awaited) ==
  IF r.st.thrown # "none" THEN [acc EXCEPT !.st = r.st]
  ELSE [acc EXCEPT !.st = r.st,
                   !.patched = @ + 1,
                   !.links = Append(@, Await(kind, r.id)),
                   !.awaits = IF awaited THEN @ \cup {Await(kind, r.id)}
                              ELSE @]

\* One iteration of compileResult.dependencies.forEach (lines 113-139)
CompileDependency(acc, dep, path) ==
  IF dep.kind = "view"
  THEN Link(acc,
            LoadAndCompileComponent(acc.st, TypeKey(dep.comp),
              CompMeta(dep.comp), NumViewDirectives(dep.comp),
              Append(path, TypeKey(dep.comp))),
            "template", ~ChildIsRecursive(path, TypeKey(dep.comp)))
  ELSE Link(acc, LoadAndCompileHostComponent(acc.st, dep.comp), "host", TRUE)

RECURSIVE CompileDependencies(_, _, _)
CompileDependencies(acc, deps, path) ==
  IF deps = <<>> \/ acc.st.thrown # "none" THEN acc
  ELSE CompileDependencies(CompileDependency(acc, Head(deps), path),
                           Tail(deps), path)

CountViewCompiler(S, meta) ==
  IF meta.isHost
  THEN [S EXCEPT !.calls.hostViewCompiler = Bump(@, meta.type)]
  ELSE [S EXCEPT !.calls.viewCompiler = Bump(@, meta.type)]

\* this._viewCompiler.compileComponent(compMeta, parsedTemplate, ...)
GenerateView(S, t) ==
  [CountViewCompiler(S, S.templates[t].meta) EXCEPT
     !.templates[t].codegens = @ + 1]

\* lines 140-150: interpretStatements / jitStatements over the statements
\* with the placeholders assigned so far (seen); fail = "realize": it throws
RealizeView(r, fail) ==
  IF r.st.thrown # "none" THEN r
  ELSE IF fail = "realize"
  THEN [r EXCEPT !.realizations = @ + 1, !.seen = r.patched,
                 !.st = Throw([r.st EXCEPT !.failures = @ + 1], "RealizeError")]
  ELSE [r EXCEPT !.realizations = @ + 1, !.seen = r.patched]

\* the compile result of line 110, no dependency processed yet
Generated(S) ==
  [st |-> S, awaits |-> {}, patched |-> 0, links |-> <<>>,
   realizations |-> 0, seen |-> 0]

\* a compiler that realizes the statements before it walks the dependencies
RealizeBeforeLinking(S, t, fail) ==
  CompileDependencies(RealizeView(Generated(GenerateView(S, t)), fail),
                      DepsOf(S.templates[t].meta), S.templates[t].path)

\* _compileComponent -> [st, awaits, patched, links, realizations, seen];
\* st.thrown tells whether it returned a factory
CompileComponent(S, t, fail) ==
  RealizeView(
    CompileDependencies(Generated(GenerateView(S, t)),
                        DepsOf(S.templates[t].meta), S.templates[t].path),
    fail)

\* a CompiledTemplate whose factory is assigned a second time
InitAgain(S, t) == [S EXCEPT !.templates[t].inits = @ + 2]

\* CompiledTemplate.init(viewFactory)
InitTemplate(S, t) == [S EXCEPT !.templates[t].inits = @ + 1]

\* this._templateParser.parse(...)
ParseTemplate(S, t) ==
  [S EXCEPT !.calls.parse = @ + 1, !.templates[t].parses = @ + 1]

\* lines 95-98, r being what _compileComponent returned: a throw rejects
\* `done`; otherwise init, then wait for the children
InitAndWait(r, t) ==
  IF r.st.thrown # "none"
  THEN [r.st EXCEPT !.thrown = "none",
                    !.templates[t].patched = r.patched,
                    !.templates[t].links = r.links,
                    !.templates[t].realizations = r.realizations,
                    !.templates[t].seen = r.seen,
                    !.templates[t].phase = "failed",
                    !.templates[t].done = "rejected"]
  ELSE [InitTemplate(r.st, t) EXCEPT
                    !.templates[t].patched = r.patched,
                    !.templates[t].links = r.links,
                    !.templates[t].realizations = r.realizations,
                    !.templates[t].seen = r.seen,
                    !.templates[t].awaits = r.awaits,
                    !.templates[t].phase = "compiled"]

\* The callback of lines 87-99: parse, compile, init, then wait for the
\* children.  A throw anywhere in it rejects `done`.  fail = "parse": the
\* parser throws
CompileCallback(S, t, fail) ==
  IF fail = "parse"
  THEN [ParseTemplate(S, t) EXCEPT !.failures = @ + 1,
                                   !.templates[t].phase = "failed",
                                   !.templates[t].done = "rejected"]
  ELSE InitAndWait(CompileComponent(ParseTemplate(S, t), t, fail), t)

FailPoints == {"none", "parse", "realize"}

\* the promise an entry of childPromises stands for
AwaitedDone(a) ==
  IF a.kind = "template" THEN templates[a.id].done ELSE hosts[a.id].done

----------------------------------------------------------------------------
(* When each promise callback is ready to run *)

FetchesSettled(j, status) ==
  {i \in 1..Len(jobs[j].fetch) : fetches[jobs[j].fetch[i]].status = status}

NestedSettled(j, phase) ==
  {i \in 1..Len(jobs[j].nested) : jobs[jobs[j].nested[i]].phase = phase}

\* PromiseWrapper.all(promises) of line 161 resolved / rejected
StylesFetchedReady(j) ==
  /\ jobs[j].phase = "fetching"
  /\ FetchesSettled(j, "resolved") = 1..Len(jobs[j].fetch)

StylesFetchFailedReady(j) ==
  /\ jobs[j].phase = "fetching"
  /\ FetchesSettled(j, "rejected") # {}

\* PromiseWrapper.all(nestedCompileResultPromises) of line 172 resolved / rejected
StylesRealizeReady(j) ==
  /\ jobs[j].phase = "nesting"
  /\ NestedSettled(j, "resolved") = 1..Len(jobs[j].nested)

StylesNestedFailedReady(j) ==
  /\ jobs[j].phase = "nesting"
  /\ NestedSettled(j, "rejected") # {}

\* a callback that does not wait for the styles and the directives
CompileBeforeJoin(t) == templates[t].phase = "loading"

\* PromiseWrapper.all([styles, ...normalized]) of line 85 resolved / rejected
CompileReady(t) ==
  /\ templates[t].phase = "loading"
  /\ templates[t].normLeft = 0 /\ ~templates[t].normFailed
  /\ jobs[templates[t].styles].phase = "resolved"

JoinRejectedReady(t) ==
  /\ templates[t].phase = "loading"
  /\ templates[t].normFailed \/ jobs[templates[t].styles].phase = "rejected"

\* a completion that does not wait for the children
ResolvesWithoutChildren(t) ==
  templates[t].phase = "compiled" /\ templates[t].done = "pending"

\* PromiseWrapper.all(childPromises) of line 98 resolved / rejected
TemplateResolvedReady(t) ==
  /\ templates[t].phase = "compiled" /\ templates[t].done = "pending"
  /\ \A a \in templates[t].awaits : AwaitedDone(a) = "resolved"

\* a join of the children that ignores their rejections
RejectionIgnored(t) == FALSE

TemplateRejectedReady(t) ==
  /\ templates[t].phase = "compiled" /\ templates[t].done = "pending"
  /\ \E a \in templates[t].awaits : AwaitedDone(a) = "rejected"

\* _template.done of line 206 settled
HostDoneReady(h) ==
  /\ hosts[h].done = "pending"
  /\ templates[hosts[h].template].done # "pending"

----------------------------------------------------------------------------
(* The event loop.  Promise callbacks run before the next task is taken.   *)
(* Callbacks that only settle a promise (they read and write no cache and  *)
(* construct nothing) commute with every other step, so they are run first *)
(* and in a fixed order: stylesheet promises, then template promises, then *)
(* host promises, lowest number first.  The callbacks that read the caches  *)
(* (the template callback of line 87 and the stylesheet callback of line   *)
(* 162 with dependencies) run in any order among themselves.  The tasks    *)
(* (a call of resolveComponent or clearCache, a transport or normalizer    *)
(* completion) are taken only when no callback is queued.                  *)

Min(ids) == CHOOSE x \in ids : \A y \in ids : x <= y

SettlingJobs ==
  {j \in 1..Len(jobs) :
     \/ StylesFetchedReady(j) /\ jobs[j].deps = <<>>
     \/ StylesFetchFailedReady(j)
     \/ StylesRealizeReady(j)
     \/ StylesNestedFailedReady(j)}

SettlingTemplates ==
  {t \in 1..Len(templates) :
     JoinRejectedReady(t) \/ TemplateResolvedReady(t) \/ TemplateRejectedReady(t)}

SettlingHosts == {h \in 1..Len(hosts) : HostDoneReady(h)}

NothingSettling ==
  SettlingJobs = {} /\ SettlingTemplates = {} /\ SettlingHosts = {}

CallbackQueued ==
  \/ ~NothingSettling
  \/ \E j \in 1..Len(jobs) : StylesFetchedReady(j)
  \/ \E t \in 1..Len(templates) : CompileReady(t)

\* the settling callback of stylesheet promise j / template promise t / host
\* promise h is the next to run
JobTurn(j) == j = Min(SettlingJobs)
TemplateTurn(t) == SettlingJobs = {} /\ t = Min(SettlingTemplates)
HostTurn(h) ==
  SettlingJobs = {} /\ SettlingTemplates = {} /\ h = Min(SettlingHosts)

\* The events so far; a handler may meet at most one collaborator failure,
\* within the budget
Events == Len(requests) + clears + failures
MayFail == Events < MaxEvents
FailureAllowed(n) == n = 0 \/ (n = 1 /\ MayFail)

----------------------------------------------------------------------------
(* Tasks *)

\* the call returns S, the style compiler having thrown in it for throwFor
CommitCall(S, throwFor) ==
  /\ (throwFor # NoType) => (S.failures > failures /\ Events + 1 < MaxEvents)
  /\ Commit(S)

ResolveComponent(component, throwFor) ==
  /\ Events < MaxEvents
  /\ ~CallbackQueued
  /\ CommitCall(ResolveComponentOp(StateWith(throwFor), component), throwFor)

ClearCache ==
  /\ Events < MaxEvents
  /\ ~CallbackQueued
  /\ Commit(ClearCacheOp(State))

\* the promise returned by xhr.get settles
XhrDone(f, ok) ==
  /\ fetches[f].status = "pending"
  /\ ok \/ MayFail
  /\ ~CallbackQueued
  /\ Commit([State EXCEPT
               !.fetches[f].status = IF ok THEN "resolved" ELSE "rejected",
               !.failures = IF ok THEN @ ELSE @ + 1])

\* a promise returned by templateNormalizer.normalizeDirective settles
NormalizeDone(t, ok) ==
  /\ templates[t].normLeft > 0
  /\ ok \/ MayFail
  /\ ~CallbackQueued
  /\ Commit([State EXCEPT !.templates[t].normLeft = @ - 1,
                          !.templates[t].normFailed = @ \/ ~ok,
                          !.failures = IF ok THEN @ ELSE @ + 1])

----------------------------------------------------------------------------
(* Promise callbacks *)

StylesFetched(j, fail) ==
  /\ StylesFetchedReady(j)
  /\ fail => (jobs[j].deps # <<>> /\ MayFail)
  /\ IF jobs[j].deps = <<>> THEN JobTurn(j) ELSE NothingSettling
  /\ Commit(StylesFetchedOp(State, j, fail))

\* PromiseWrapper.all(promises) rejects: no callback runs
StylesFetchFailed(j) ==
  /\ StylesFetchFailedReady(j)
  /\ JobTurn(j)
  /\ Commit([State EXCEPT !.jobs[j].phase = "rejected"])

StylesRealize(j, fail) ==
  /\ StylesRealizeReady(j)
  /\ fail => MayFail
  /\ JobTurn(j)
  /\ Commit(StylesRealizeOp(State, j, fail))

StylesNestedFailed(j) ==
  /\ StylesNestedFailedReady(j)
  /\ JobTurn(j)
  /\ Commit([State EXCEPT !.jobs[j].phase = "rejected"])

\* PromiseWrapper.all([styles, ...normalized]) rejects: `done` rejects and
\* the callback of line 87 never runs
JoinRejected(t) ==
  /\ JoinRejectedReady(t)
  /\ TemplateTurn(t)
  /\ Commit([State EXCEPT !.templates[t].phase = "failed",
                          !.templates[t].done = "rejected"])

DepTypes(t) ==
  {DepsOf(templates[t].meta)[i].comp : i \in 1..Len(DepsOf(templates[t].meta))}

\* the callback ends in S; failing: a collaborator was to throw in it
CommitCallback(S, failing) ==
  /\ FailureAllowed(S.failures - failures)
  /\ failing => S.failures > failures
  /\ Commit(S)

Compile(t, fail, throwFor) ==
  /\ CompileReady(t)
  /\ fail = "none" \/ throwFor = NoType
  /\ NothingSettling
  /\ CommitCallback(CompileCallback(StateWith(throwFor), t, fail),
                    fail # "none" \/ throwFor # NoType)

\* PromiseWrapper.all(childPromises).then((_) => compiledTemplate), line 98
TemplateResolved(t) ==
  /\ TemplateResolvedReady(t)
  /\ TemplateTurn(t)
  /\ Commit([State EXCEPT !.templates[t].done = "resolved"])

TemplateRejected(t) ==
  /\ TemplateRejectedReady(t)
  /\ TemplateTurn(t)
  /\ Commit([State EXCEPT !.templates[t].done = "rejected"])

\* _template.done.then((_) => this.componentFactory), line 206
HostDone(h) ==
  /\ HostDoneReady(h)
  /\ HostTurn(h)
  /\ Commit([State EXCEPT !.hosts[h].done = templates[hosts[h].template].done])

----------------------------------------------------------------------------

Init ==
  /\ scen \in ScenarioNames
  /\ styleCache = EmptyMap
  /\ hostCacheKeys = EmptyMap
  /\ compiledTemplateCache = EmptyMap
  /\ templates = <<>>
  /\ hosts = <<>>
  /\ jobs = <<>>
  /\ fetches = <<>>
  /\ requests = <<>>
  /\ calls = [metadata |-> [c \in Types |-> 0],
              styleCompiler |-> 0, normalize |-> 0, parse |-> 0,
              viewCompiler |-> [c \in Types |-> 0],
              hostViewCompiler |-> [c \in Types |-> 0],
              compileStylesheet |-> 0,
              xhr |-> [u \in DOMAIN NoSheets |-> 0]]
  /\ nextKey = 0
  /\ clears = 0
  /\ failures = 0

\* the collaborators' futures settle
Completions ==
  \/ \E f \in 1..Len(fetches), ok \in BOOLEAN : XhrDone(f, ok)
  \/ \E t \in 1..Len(templates), ok \in BOOLEAN : NormalizeDone(t, ok)

\* the callbacks that only settle a promise
Settlements ==
  \/ \E j \in 1..Len(jobs) : jobs[j].deps = <<>> /\ StylesFetched(j, FALSE)
  \/ \E j \in 1..Len(jobs) : StylesFetchFailed(j)
  \/ \E j \in 1..Len(jobs), fail \in BOOLEAN : StylesRealize(j, fail)
  \/ \E j \in 1..Len(jobs) : StylesNestedFailed(j)
  \/ \E t \in 1..Len(templates) : JoinRejected(t)
  \/ \E t \in 1..Len(templates) : TemplateResolved(t)
  \/ \E t \in 1..Len(templates) : TemplateRejected(t)
  \/ \E h \in 1..Len(hosts) : HostDone(h)

\* the callbacks that read the caches
CacheCallbacks ==
  \/ \E j \in 1..Len(jobs), fail \in BOOLEAN :
       jobs[j].deps # <<>> /\ StylesFetched(j, fail)
  \/ \E t \in 1..Len(templates), fail \in FailPoints :
       \E throwFor \in DepTypes(t) \cup {NoType} : Compile(t, fail, throwFor)

\* Everything the event loop runs without a call from outside
Callbacks == Completions \/ Settlements \/ CacheCallbacks

Next ==
  \/ \E component \in Scen.roots : \E throwFor \in {NoType, component} :
       ResolveComponent(component, throwFor)
  \/ ClearCache
  \/ Callbacks

Spec == Init /\ [][Next]_vars

\* A callback that reads the caches is queued and is the next to run
CacheCallbackReady == NothingSettling /\ CallbackQueued

\* The event loop runs every callback that is ready, and every collaborator
\* future settles: weak fairness of Completions, of Settlements and of
\* CacheCallbacks.  For the last the condition is written out by the
\* definition of WF (WF_v(A) is []<>~ENABLED <<A>>_v \/ []<><<A>>_v):
\* ENABLED <<CacheCallbacks>>_vars is CacheCallbackReady, and in a state where
\* it holds no other action is enabled, so every step that leaves such a state
\* is a step of CacheCallbacks.
FairSpec ==
  /\ Spec
  /\ WF_vars(Completions)
  /\ WF_vars(Settlements)
  /\ ([]<>~CacheCallbackReady \/ []<><<CacheCallbackReady>>_vars)

----------------------------------------------------------------------------
(* Vocabulary of the properties *)

\* Nothing is left to run: no callback is queued and no collaborator future
\* is pending.  Only a new call changes such a state.
Quiescent ==
  /\ ~CallbackQueued
  /\ \A f \in 1..Len(fetches) : fetches[f].status # "pending"
  /\ \A t \in 1..Len(templates) : templates[t].normLeft = 0

\* the calls of resolveComponent that returned a future built by
\* CompileHostTemplate
Futures == {r \in 1..Len(requests) : requests[r].outcome = "future"}

\* the state of the future a call returned
FutureOf(r) == hosts[requests[r].host].done

\* the CompiledTemplate behind the factory a call's future carries
TemplateOf(r) == hosts[requests[r].host].template

\* the CompiledTemplates created for a component type
TemplatesOf(c) == {t \in 1..Len(templates) : templates[t].key = TypeKey(c)}

\* template t waits for the completion of template u
WaitsFor(t, u) ==
  /\ Await("template", u) \in templates[t].awaits
  /\ templates[t].done = "pending"

----------------------------------------------------------------------------
(* C1 *)

\* one request, for A, in an application where A includes B and B includes A,
\* or A includes itself; every collaborator succeeds and the cache is not cleared
C1Case ==
  /\ scen \in {"mutual", "self"}
  /\ Len(requests) = 1
  /\ requests[1].component = "A" /\ requests[1].outcome = "future"
  /\ clears = 0 /\ failures = 0

C1Resolved == C1Case /\ FutureOf(1) = "resolved"

\* some template awaits the completion of a template whose key is on its own
\* compiling path
AwaitsOwnPath ==
  \E t \in 1..Len(templates) : \E a \in templates[t].awaits :
    a.kind = "template" /\ templates[a.id].key \in Range(templates[t].path)

\* exactly one CompiledTemplate exists for c and init was called on it once
AssignedOnce(c) ==
  /\ Cardinality(TemplatesOf(c)) = 1
  /\ \A t \in TemplatesOf(c) : templates[t].inits = 1

\* C1: a single request for a component that includes itself, directly or
\* through B, with every collaborator succeeding: no template ever awaits a
\* template found on its own compiling path, the returned future eventually
\* resolves (unless a further call, a clearCache or a failure ends the case),
\* and once it has resolved the CompiledTemplate of A and that of B have
\* each had their factory assigned exactly once.
C1RecursionTerminates ==
  /\ [](C1Case => ~AwaitsOwnPath)
  /\ [](C1Resolved => AssignedOnce("A") /\ AssignedOnce("B"))
  /\ (C1Case ~> (~C1Case \/ C1Resolved))

\* the request for A of the mutual recursion has resolved, B having linked
\* the proxy of A without awaiting it
C1Witness ==
  /\ C1Resolved /\ scen = "mutual"
  /\ \E t \in TemplatesOf("B") :
       templates[t].patched = 1 /\ templates[t].awaits = {}

----------------------------------------------------------------------------
(* C2 *)

\* two CompiledTemplate completions wait on each other
MutualWait ==
  \E t, u \in 1..Len(templates) : t # u /\ WaitsFor(t, u) /\ WaitsFor(u, t)

\* C2: with every collaborator succeeding and no clearCache, whatever the
\* component graph and the interleaving of the requests, no two template
\* completions wait on each other and, once nothing is left to run, every
\* future returned by resolveComponent has resolved.
C2AnyGraphTerminates ==
  (clears = 0 /\ failures = 0) =>
    /\ ~MutualWait
    /\ Quiescent => \A r \in Futures : FutureOf(r) = "resolved"

----------------------------------------------------------------------------
(* C3 *)

\* two calls for the same component with no clearCache between them, both
\* having returned a future
SameIdentity(r1, r2) ==
  /\ r1 \in Futures /\ r2 \in Futures /\ r1 < r2
  /\ requests[r1].component = requests[r2].component
  /\ requests[r1].epoch = requests[r2].epoch

\* C3, as the specification states it: the two futures carry the same
\* factory object (one CompileHostTemplate / ComponentFactory per identity).
C3SameFactoryObject ==
  \A r1, r2 \in 1..Len(requests) :
    SameIdentity(r1, r2) => requests[r1].host = requests[r2].host

\* C3, as the code has it: every call constructs its own CompileHostTemplate
\* and ComponentFactory; the two factories wrap the proxy of the same
\* CompiledTemplate, and the two futures settle alike.
C3SameTemplate ==
  \A r1, r2 \in 1..Len(requests) :
    SameIdentity(r1, r2) =>
      /\ requests[r1].host # requests[r2].host
      /\ TemplateOf(r1) = TemplateOf(r2)
      /\ Quiescent => FutureOf(r1) = FutureOf(r2)

\* two calls for A, the second made while the first was in flight or after
\* it, have both resolved
C3Witness ==
  /\ SameIdentity(1, 2) /\ clears = 0
  /\ FutureOf(1) = "resolved" /\ FutureOf(2) = "resolved"

----------------------------------------------------------------------------
(* C4 *)

\* only calls for component type c were made, at least two, each returned a
\* future, every collaborator succeeded and the cache was not cleared
C4Case(c) ==
  /\ Len(requests) >= 2
  /\ \A r \in 1..Len(requests) :
       requests[r].component = c /\ requests[r].outcome = "future"
  /\ clears = 0 /\ failures = 0

\* C4, as the specification states it: the calls for one identity trigger
\* one invocation of getDirectiveMetadata and one of the view code generator.
C4OneMetadataCall ==
  \A c \in Types :
    C4Case(c) =>
      /\ calls.metadata[c] = 1
      /\ calls.viewCompiler[c] <= 1 /\ calls.hostViewCompiler[c] <= 1

\* C4, as the code has it: getDirectiveMetadata is invoked once per call; the
\* view code generator is invoked at most once for the component and at most
\* once for its host, and exactly once each when the futures have resolved.
C4OneCodeGeneration ==
  \A c \in Types :
    C4Case(c) =>
      /\ calls.metadata[c] = Len(requests)
      /\ calls.viewCompiler[c] <= 1 /\ calls.hostViewCompiler[c] <= 1
      /\ (\E r \in Futures : FutureOf(r) = "resolved") =>
           calls.viewCompiler[c] = 1 /\ calls.hostViewCompiler[c] = 1

\* two calls for A are in flight together, the code generator having run
C4Witness ==
  /\ C4Case("A")
  /\ FutureOf(1) = "pending" /\ FutureOf(2) = "pending"
  /\ calls.viewCompiler["A"] = 1

----------------------------------------------------------------------------
(* C5 *)

\* C5: between two clearCache calls one CompiledTemplate at most is created
\* per cache key; while the cache is not cleared the entry of the key is that
\* instance; a template is parsed and code-generated at most once, and the
\* style compiler is invoked once per template created (and once more per
\* invocation that threw).
C5OneTemplatePerKey ==
  /\ \A t, u \in 1..Len(templates) :
       (templates[t].key = templates[u].key
          /\ templates[t].epoch = templates[u].epoch) => t = u
  /\ \A t \in 1..Len(templates) :
       /\ templates[t].epoch = clears =>
            /\ Has(compiledTemplateCache, templates[t].key)
            /\ compiledTemplateCache[templates[t].key] = t
       /\ templates[t].parses <= 1 /\ templates[t].codegens <= 1
  /\ failures = 0 => calls.styleCompiler = Len(templates)
  /\ calls.styleCompiler <= Len(templates) + failures

\* B, compiled after A, asked for the key of A and was given the one
\* CompiledTemplate of A
C5Witness ==
  /\ scen = "mutual" /\ clears = 0
  /\ Cardinality(TemplatesOf("A")) = 1
  /\ \E t \in TemplatesOf("B") : templates[t].patched = 1

----------------------------------------------------------------------------
(* C6 *)

\* C6: every call of resolveComponent for a type whose metadata is not a
\* component returns a rejected future that carries the not-a-component
\* error, and the view code generator is never invoked for the type.
C6RejectedFuture ==
  \A r \in 1..Len(requests) :
    requests[r].component = "D" =>
      /\ requests[r].outcome = "rejected"
      /\ requests[r].error = "NotAComponent"
      /\ calls.viewCompiler["D"] = 0 /\ calls.hostViewCompiler["D"] = 0

----------------------------------------------------------------------------
(* C7 *)

\* the step is a call of resolveComponent with the string
C7StringCall ==
  /\ Len(requests') = Len(requests) + 1
  /\ requests'[Len(requests')].component = StringArg

\* C7: a call of resolveComponent with a string returns a rejected future
\* and does no work: the three caches are unchanged, no collaborator is
\* invoked and nothing is constructed.
C7StringDoesNoWork ==
  [][C7StringCall =>
       /\ requests'[Len(requests')].outcome = "rejected"
       /\ requests'[Len(requests')].error = "CannotResolve"
       /\ UNCHANGED <<styleCache, hostCacheKeys, compiledTemplateCache, calls,
                      templates, hosts, jobs, fetches, nextKey>>]_vars

\* the string was passed to a compiler whose caches hold the work of an
\* earlier call
C7Witness ==
  /\ Len(requests) >= 2
  /\ requests[1].component = "A" /\ requests[1].outcome = "future"
  /\ requests[2].component = StringArg /\ requests[2].outcome = "rejected"
  /\ compiledTemplateCache # EmptyMap

----------------------------------------------------------------------------
(* C8 *)

\* template u, whose completion template t awaits (u is a child of t that
\* is not on the compiling path of t), was rejected
ChildFailed(t, u) ==
  /\ Await("template", u) \in templates[t].awaits
  /\ templates[u].done = "rejected"

\* the invocations of the view code generator for the metadata of template t
CodeGenerations(t) ==
  IF templates[t].meta.isHost
  THEN calls.hostViewCompiler[templates[t].meta.type]
  ELSE calls.viewCompiler[templates[t].meta.type]

\* C8: when the compilation of an awaited child has failed, the parent's
\* completion never resolves and, once nothing is left to run, is rejected;
\* until clearCache the parent's CompiledTemplate stays the entry of its key;
\* the code generator has run once for the parent and, the cache not having
\* been cleared, once in all for its metadata; and every future
\* resolveComponent returned over a rejected template is rejected as well,
\* whenever the call was made.
C8FailurePropagates ==
  /\ \A t, u \in 1..Len(templates) :
       ChildFailed(t, u) =>
         /\ templates[t].done # "resolved"
         /\ Quiescent => templates[t].done = "rejected"
         /\ templates[t].epoch = clears =>
              /\ Has(compiledTemplateCache, templates[t].key)
              /\ compiledTemplateCache[templates[t].key] = t
         /\ templates[t].codegens = 1
         /\ clears = 0 => CodeGenerations(t) = 1
  /\ \A r \in Futures :
       templates[TemplateOf(r)].done = "rejected" =>
         /\ FutureOf(r) # "resolved"
         /\ Quiescent => FutureOf(r) = "rejected"

\* B, the child of A that is not on a cycle, failed; A was rejected, and so
\* were the future of the call made before the failure and the future of a
\* call made after it
C8Witness ==
  /\ scen = "self" /\ clears = 0 /\ Len(requests) = 2 /\ Futures = {1, 2}
  /\ \E t \in TemplatesOf("A"), u \in TemplatesOf("B") :
       ChildFailed(t, u) /\ templates[t].done = "rejected"
  /\ FutureOf(1) = "rejected" /\ FutureOf(2) = "rejected"
  /\ requests[2].seq = 2 /\ calls.viewCompiler["A"] = 1

----------------------------------------------------------------------------
(* C9 *)

\* the step is a call of resolveComponent for c that returns a future, a
\* call for c made before the last clearCache having resolved
C9CallAfterClear(c) ==
  /\ Len(requests') = Len(requests) + 1
  /\ requests'[Len(requests')].component = c
  /\ requests'[Len(requests')].outcome = "future"
  /\ \E q \in Futures :
       /\ requests[q].component = c /\ requests[q].epoch < clears
       /\ FutureOf(q) = "resolved"

\* the call asks for the metadata again and its future is built over a
\* CompiledTemplate created after the clear, not over one a call before the
\* clear was given; when the type has no host cache key, the key and the
\* template are new and the template is not compiled yet
C9Fresh(c) ==
  LET t == hosts'[requests'[Len(requests')].host].template IN
  /\ calls'.metadata[c] = calls.metadata[c] + 1
  /\ templates'[t].epoch = clears
  /\ \A q \in Futures : requests[q].epoch < clears => TemplateOf(q) # t
  /\ ~Has(hostCacheKeys, c) =>
       /\ nextKey' = nextKey + 1
       /\ hostCacheKeys'[c] = HostKey(nextKey')
       /\ t = Len(templates) + 1
       /\ templates'[t].key = HostKey(nextKey')
       /\ templates'[t].codegens = 0

\* a completion resolves only after the code generator has run for its own
\* template, and it awaits no template older than its own
C9OwnCodeGeneration ==
  \A t \in 1..Len(templates') :
    /\ templates'[t].done = "resolved" =>
         templates'[t].codegens = 1 /\ templates'[t].inits = 1
    /\ \A a \in templates'[t].awaits :
         a.kind = "template" => templates'[a.id].epoch >= templates'[t].epoch

\* C9: clearCache empties the style cache, the host-cache-key table and the
\* compiled-template cache in one step; a resolveComponent issued after it
\* for an identity resolved before invokes the metadata resolver again,
\* allocates a new host key and creates a new CompiledTemplate, and its
\* future resolves only once the code generator has run for that template.
C9ClearStartsAfresh ==
  [][/\ (clears' # clears) =>
          /\ styleCache' = EmptyMap
          /\ hostCacheKeys' = EmptyMap
          /\ compiledTemplateCache' = EmptyMap
     /\ \A c \in Types : C9CallAfterClear(c) => C9Fresh(c)
     /\ C9OwnCodeGeneration]_vars

\* A was resolved, the cache was cleared, and a second call for A resolved
\* over a second host key and second runs of the code generator
C9Witness ==
  /\ Len(requests) = 2 /\ Futures = {1, 2}
  /\ requests[1].component = "A" /\ requests[2].component = "A"
  /\ requests[1].epoch = 0 /\ requests[2].epoch = 1
  /\ FutureOf(1) = "resolved" /\ FutureOf(2) = "resolved"
  /\ TemplateOf(1) # TemplateOf(2)
  /\ nextKey = 2 /\ calls.metadata["A"] = 2
  /\ calls.hostViewCompiler["A"] = 2 /\ calls.viewCompiler["A"] = 2

----------------------------------------------------------------------------
(* C10 *)

\* C10: a future returned by resolveComponent before a clearCache is settled
\* (resolved or rejected) once nothing is left to run, wherever in the
\* compilation the clear fell.
C10InFlightSettles ==
  Quiescent =>
    \A r \in Futures : requests[r].epoch < clears => FutureOf(r) # "pending"

----------------------------------------------------------------------------
(* C11 *)

\* the transport fetches issued for the i-th import of stylesheet job j (its
\* module URL and shim flag) in the cache generation in which j asked for it
FetchesFor(j, i) ==
  {f \in 1..Len(fetches) :
     /\ fetches[f].epoch = jobs[j].epoch
     /\ fetches[f].moduleUrl = jobs[j].deps[i].moduleUrl
     /\ fetches[f].isShimmed = jobs[j].deps[i].isShimmed}

\* C11: between two clearCache calls, the imports of one module URL with one
\* shim flag, however many and from wherever, cause exactly one xhr.get of
\* that URL, whether it succeeded or failed.
C11OneFetchPerImport ==
  \A j \in 1..Len(jobs) : \A i \in 1..Len(jobs[j].deps) :
    Cardinality(FetchesFor(j, i)) = 1

----------------------------------------------------------------------------
(* C12 *)

\* C12: every component type recorded in _hostCacheKeys has a
\* CompiledTemplate in _compiledTemplateCache under its host cache key, and
\* no call of resolveComponent fails on reading an absent template.
C12HostKeyHasTemplate ==
  /\ \A c \in DOMAIN hostCacheKeys :
       Has(compiledTemplateCache, hostCacheKeys[c])
  /\ \A r \in 1..Len(requests) : requests[r].error # "TypeError"

----------------------------------------------------------------------------
(* C13 *)

\* the dependency for which template t was constructed found the key of t in
\* its compiling path (the path of t is that path with the key appended)
CreatedOnCycle(t) ==
  /\ templates[t].key.kind = "type"
  /\ templates[t].key \in
       Range(SubSeq(templates[t].path, 1, Len(templates[t].path) - 1))

\* C13: a child-view dependency whose key is in the compiling path finds the
\* CompiledTemplate of the key in the cache: no CompiledTemplate is ever
\* constructed, and no compilation started, for a key found in the compiling
\* path, clearCache or not.
C13CycleFindsTemplate ==
  \A t \in 1..Len(templates) : ~CreatedOnCycle(t)

----------------------------------------------------------------------------
(* C14 *)

\* the CompiledTemplate whose proxy a placeholder was assigned: the child's
\* own, or the one the child's ComponentFactory wraps (line 205)
LinkedTemplate(a) ==
  IF a.kind = "template" THEN a.id ELSE hosts[a.id].template

\* the templates whose proxies the generated code of template t holds
LinksOf(t) ==
  {LinkedTemplate(templates[t].links[i]) : i \in 1..Len(templates[t].links)}

RECURSIVE Closure(_, _)
Closure(ts, n) ==
  IF n = 0 THEN ts
  ELSE Closure(ts \cup UNION {LinksOf(t) : t \in ts}, n - 1)

\* the templates whose proxies can be invoked through template t
ReachableFrom(t) == Closure({t}, Len(templates))

\* C14: with no clearCache, once a future returned by resolveComponent has
\* resolved, every CompiledTemplate whose proxy is reachable from the returned
\* factory through assigned placeholders has had its factory assigned.
C14ReachableProxiesAssigned ==
  clears = 0 =>
    \A r \in Futures :
      FutureOf(r) = "resolved" =>
        \A u \in ReachableFrom(TemplateOf(r)) : templates[u].inits >= 1

----------------------------------------------------------------------------
(* C15 *)

\* the dependencies of template t whose completion is to be awaited: the
\* host-factory dependencies, and the child views whose key is not in the
\* compiling path of t
ToAwait(t) ==
  {i \in 1..Len(DepsOf(templates[t].meta)) :
     \/ DepsOf(templates[t].meta)[i].kind = "host"
     \/ TypeKey(DepsOf(templates[t].meta)[i].comp) \notin Range(templates[t].path)}

\* the placeholder of the i-th dependency of t holds the proxy of the
\* CompiledTemplate of the child's key, or the factory of a CompileHostTemplate
\* of the child whose host template was compiled with an empty compiling path
LinkedToChild(t, i) ==
  IF DepsOf(templates[t].meta)[i].kind = "view"
  THEN /\ templates[t].links[i].kind = "template"
       /\ templates[templates[t].links[i].id].key =
            TypeKey(DepsOf(templates[t].meta)[i].comp)
  ELSE /\ templates[t].links[i].kind = "host"
       /\ hosts[templates[t].links[i].id].type =
            DepsOf(templates[t].meta)[i].comp
       /\ templates[hosts[templates[t].links[i].id].template].path = <<>>

\* C15: a completion that has resolved belongs to a template whose factory
\* was assigned and whose enqueued completions have all resolved; the
\* enqueued completions are exactly those of the child views whose key was
\* not in the compiling path and of every host-factory dependency; and a
\* template one of whose enqueued completions was rejected never resolves and
\* is rejected once nothing is left to run.
C15ResolvesAfterChildren ==
  \A t \in 1..Len(templates) :
    /\ templates[t].done = "resolved" =>
         /\ templates[t].inits = 1
         /\ \A a \in templates[t].awaits : AwaitedDone(a) = "resolved"
    /\ templates[t].phase = "compiled" =>
         /\ Len(templates[t].links) = Len(DepsOf(templates[t].meta))
         /\ \A i \in 1..Len(templates[t].links) : LinkedToChild(t, i)
         /\ templates[t].awaits = {templates[t].links[i] : i \in ToAwait(t)}
    /\ (\E a \in templates[t].awaits : AwaitedDone(a) = "rejected") =>
         /\ templates[t].done # "resolved"
         /\ Quiescent => templates[t].done = "rejected"

\* A, which refers to B through a host-factory dependency, resolved after the
\* completion of the CompileHostTemplate of B it had enqueued
C15Witness ==
  /\ scen = "hostdep"
  /\ \E t \in TemplatesOf("A") :
       /\ templates[t].done = "resolved" /\ templates[t].inits = 1
       /\ \E a \in templates[t].awaits :
            a.kind = "host" /\ hosts[a.id].type = "B"

----------------------------------------------------------------------------
(* C16 *)

\* C16: in every step, every CompiledTemplate there is stays the same object
\* (same key, metadata and compiling path: its proxy is the one created by
\* its constructor, and the placeholders assigned that proxy keep it), its
\* factory once assigned is never assigned again, and a CompiledTemplate is
\* constructed with no factory.
C16FactoryAssignedOnce ==
  [][/\ Len(templates') >= Len(templates)
     /\ \A t \in 1..Len(templates) :
          /\ templates'[t].key = templates[t].key
          /\ templates'[t].meta = templates[t].meta
          /\ templates'[t].path = templates[t].path
          /\ templates'[t].epoch = templates[t].epoch
          /\ templates[t].links # <<>> =>
               templates'[t].links = templates[t].links
          /\ templates'[t].inits >= templates[t].inits
          /\ templates'[t].inits <= 1
     /\ \A t \in (Len(templates) + 1)..Len(templates') :
          templates'[t].inits = 0]_vars

\* a CompiledTemplate of A constructed before a clearCache had its factory
\* assigned, a collaborator failed, and the template is no longer in the cache
C16Witness ==
  /\ clears = 1 /\ failures = 1
  /\ \E t \in TemplatesOf("A") :
       /\ templates[t].epoch = 0 /\ templates[t].inits = 1
       /\ templates[t].done # "pending"

----------------------------------------------------------------------------
(* C17 *)

\* the style compilation of template t and the normalization of each of its
\* view directives have completed
Joined(t) ==
  /\ templates[t].normLeft = 0 /\ ~templates[t].normFailed
  /\ jobs[templates[t].styles].phase = "resolved"

\* the style compilation of template t or the normalization of one of its
\* view directives has failed
JoinFailed(t) ==
  templates[t].normFailed \/ jobs[templates[t].styles].phase = "rejected"

\* C17: a template is parsed only when its style compilation and the
\* normalization of all its view directives have completed; code generation,
\* child compilation and the assignment of the factory come after the
\* parsing; and when the style compilation or a normalization has failed the
\* template is never parsed or code-generated and its factory is never
\* assigned.
C17ParseAfterJoin ==
  \A t \in 1..Len(templates) :
    /\ templates[t].parses >= 1 => Joined(t)
    /\ templates[t].codegens <= templates[t].parses
    /\ templates[t].links # <<>> => templates[t].codegens = 1
    /\ templates[t].inits <= templates[t].codegens
    /\ JoinFailed(t) =>
         /\ templates[t].parses = 0 /\ templates[t].codegens = 0
         /\ templates[t].links = <<>> /\ templates[t].inits = 0

\* A, whose styles import stylesheets, was parsed and compiled after the
\* stylesheets were fetched and compiled and its directives normalized
C17Witness ==
  /\ scen = "hostdep"
  /\ \E t \in TemplatesOf("A") :
       /\ jobs[templates[t].styles].deps # <<>>
       /\ templates[t].parses = 1 /\ templates[t].inits = 1

----------------------------------------------------------------------------
(* C18 *)

\* C18: when the statements of a template are realized, every placeholder of
\* its dependencies has been assigned, and a factory is assigned only from
\* such a realization; when the program of a stylesheet level is realized,
\* every import placeholder has been assigned the styles of its nested
\* resolution, which has resolved, and a level resolves only by realization.
C18PatchedBeforeRealize ==
  /\ \A t \in 1..Len(templates) :
       /\ templates[t].realizations >= 1 =>
            /\ templates[t].seen = Len(DepsOf(templates[t].meta))
            /\ Len(templates[t].links) = Len(DepsOf(templates[t].meta))
       /\ templates[t].inits <= templates[t].realizations
  /\ \A j \in 1..Len(jobs) :
       /\ jobs[j].realized =>
            /\ jobs[j].patched = Len(jobs[j].deps)
            /\ Len(jobs[j].nested) = Len(jobs[j].deps)
            /\ \A i \in 1..Len(jobs[j].nested) :
                 jobs[jobs[j].nested[i]].phase = "resolved"
       /\ jobs[j].phase = "resolved" => jobs[j].realized

\* the view of A, which has a host-factory dependency, and the styles of A,
\* which import a stylesheet, have both been realized
C18Witness ==
  /\ scen = "hostdep"
  /\ \E t \in TemplatesOf("A") :
       /\ templates[t].realizations = 1 /\ templates[t].seen = 1
       /\ jobs[templates[t].styles].realized
       /\ jobs[templates[t].styles].patched = 1

----------------------------------------------------------------------------
(* C19 *)

\* the imports the stylesheet jobs have asked for
ImportsSeen ==
  UNION {Range(jobs[j].deps) : j \in 1..Len(jobs)}

\* C19: two imports that differ in module URL or shim flag have different
\* style cache keys, and the text delivered for an import is the text
\* fetched from the import's own module URL.
C19KeysDistinguishImports ==
  /\ \A d, e \in ImportsSeen : d # e => StyleCacheKey(d) # StyleCacheKey(e)
  /\ \A j \in 1..Len(jobs) : \A i \in 1..Len(jobs[j].deps) :
       CssText(State, j, i) = jobs[j].deps[i].moduleUrl

====
